---- MODULE Spec2Model ----
(***************************************************************************)
(* Model of the CSAS -> SharePoint statement uploader (src/src/main.py):   *)
(* class CSASSharePointUploader, its run() pipeline (validate, download,   *)
(* upload, aggregate, cleanup), the two external collaborators it spawns   *)
(* and the workspace directory they share.                                 *)
(*                                                                         *)
(* A blocking subprocess.run() call is the only place where another        *)
(* process acts, so every stage is cut exactly there: the action before    *)
(* the call ends with the collaborator started, the action after it is     *)
(* the collaborator's effect followed by the rest of the handler.          *)
(***************************************************************************)
EXTENDS Naturals, Integers, Sequences, FiniteSets, TLC

\* ------------------------------------------------------------------ bounds
\* Upper bound on the statement files the downloader writes in one invocation.
MaxFiles == 3
\* Upper bound on the client's calls on one uploader object (SpecCalls only).
MaxCalls == 2
\* Upper bound on the files the downloader writes per invocation in SpecCalls.
MaxCallFiles == 2

\* --------------------------------------------------------------- constants
\* Python's None / an unset environment variable, as a path.
NonePath == [dir |-> "", name |-> ""]
\* The empty string (RESULT_FILE set to nothing), as a path.
EmptyPath == [dir |-> "''", name |-> ""]
\* The workspace directory (self.temp_dir).
TempDir == "/tmp/csas_statements"
\* A report location outside the workspace and one inside it.
OutPath == [dir |-> "/var/report", name |-> "result.json"]
InPath == [dir |-> TempDir, name |-> "original_result.json"]
ReportPaths == {NonePath, EmptyPath, OutPath, InPath}

\* The variables _check_environment reads, in the order it reads them.
required_csas == <<"CSAS_API_KEY", "CSAS_ACCESS_TOKEN">>
required_csas_account == <<"CSAS_ACCOUNT_UUID", "CSAS_ACCOUNT_IBAN">>
required_office365 == <<"OFFICE365_TENANT", "OFFICE365_SITE">>
EnvVars == {"CSAS_API_KEY", "CSAS_ACCESS_TOKEN", "CSAS_ACCOUNT_UUID",
            "CSAS_ACCOUNT_IBAN", "OFFICE365_TENANT", "OFFICE365_SITE"}

\* Names of the statement files the downloader may write.
StmtNames == <<"stmt1.pdf", "stmt2.pdf", "stmt3.pdf", "stmt4.pdf", "stmt5.pdf", "stmt6.pdf">>
TempName == "temp_result.json"
DownloadBackupName == TempName \o "." \o "download" \o ".backup"

\* What a collaborator may leave in its side-effect report file.
JsonUrl == "{\"url\": \"https://sp/doc\"}"
JsonPlain == "{\"status\": \"ok\"}"
Garbage == "Fatal error: not json"
Blank == "  "
NoWrite == "<no report written>"
\* The reports the downloader is taken to write, and the uploader.
ReportTexts == {JsonUrl, Garbage, Blank}
UploadReportTexts == {JsonUrl}

\* How a subprocess.run() call can end: exit 0, exit non-zero,
\* subprocess.TimeoutExpired, or OSError (the executable cannot be started).
Exits == {"zero", "nonzero", "timeout", "oserror"}

\* ------------------------------------------------------------------- state
VARIABLES
    environ,               \* os.environ restricted to EnvVars: "" is unset or empty
    env_result_file,       \* os.environ['RESULT_FILE'] (NonePath when unset)
    ws_exists,             \* the directory self.temp_dir exists
    ws,                    \* its contents: file name -> text
    out_file,              \* the file at OutPath: "absent", "prior" or "final"
    final_doc,             \* the document the aggregator wrote last
    report_text,           \* the text of the file it wrote, as JSON tokens
    original_result_file,  \* self.original_result_file
    temp_result_file,      \* self.temp_result_file
    downloaded_files,      \* self.downloaded_files
    download_result,       \* self.download_result
    upload_results,        \* self.upload_results
    missing,               \* the list _check_environment logged
    pc,                    \* position of the thread of control
    idx,                   \* upload loop: index into downloaded_files
    success_count,         \* upload loop: local success_count
    cleanup_arg,           \* run(cleanup=...)
    rc,                    \* run()'s return value, -1 while it has not returned
    api,                   \* TRUE: a client drives the object's methods directly
    in_run,                \* TRUE while run() is on the stack
    calls,                 \* calls the client has made
    ret,                   \* last return value of a directly called stage
    log,                   \* history: the externally visible events, in order
    dl_exit,               \* history: how the last downloader run ended
    dl_wrote,              \* history: the report text it wrote (NoWrite: none)
    dl_names,              \* history: the workspace's file names when it ended
    skipped,               \* history: the files this upload stage skipped as missing
    raised                 \* history: the stage of this run() that raised

vars == <<environ, env_result_file, ws_exists, ws, out_file, final_doc, report_text,
          original_result_file, temp_result_file, downloaded_files,
          download_result, upload_results, missing, pc, idx, success_count,
          cleanup_arg, rc, api, in_run, calls, ret, log, dl_exit, dl_wrote, dl_names, skipped,
          raised>>

\* ----------------------------------------------------------------- helpers
\* `if not p`: None and the empty string are false.
Falsy(p) == p.name = ""

Put(f, k, v) == [x \in DOMAIN f \cup {k} |-> IF x = k THEN v ELSE f[x]]
Remove(f, k) == [x \in DOMAIN f \ {k} |-> f[x]]
EmptyDir == [x \in {} |-> ""]

join(d, n) == [dir |-> d, name |-> n]
basename(p) == p.name

\* os.path.exists(p) in a given workspace state.
ExistsIn(p, wsx, w, o) ==
    IF p.dir = TempDir THEN wsx /\ p.name \in DOMAIN w
    ELSE IF p = OutPath THEN o # "absent"
    ELSE FALSE
PathExists(p) == ExistsIn(p, ws_exists, ws, out_file)

\* The directory's entries as a list.  The order of a directory listing is
\* the file system's; it is taken to be one fixed order of the names.
RECURSIVE Listing(_)
Listing(names) ==
    IF names = {} THEN <<>>
    ELSE LET n == CHOOSE x \in names : TRUE
         IN  <<join(TempDir, n)>> \o Listing(names \ {n})

\* glob.glob(os.path.join(self.temp_dir, '*'))
glob(wsx, w) == IF wsx THEN Listing(DOMAIN w) ELSE <<>>

SelectPaths(s, skip) == SelectSeq(s, LAMBDA p : p # skip)

\* json.load on the texts a report file can hold.
NoData == [kind |-> "none", url |-> "", raw |-> ""]
JsonLoad(t) ==
    IF t = JsonUrl THEN [ok |-> TRUE, val |-> [kind |-> "dict", url |-> "https://sp/doc", raw |-> ""]]
    ELSE IF t = JsonPlain THEN [ok |-> TRUE, val |-> [kind |-> "dict", url |-> "", raw |-> ""]]
    ELSE [ok |-> FALSE, val |-> NoData]
\* str.strip() on those texts.
Strip(t) == IF t = Blank THEN "" ELSE t

\* self.download_result == {} after construction.
EmptyResult == [set |-> FALSE, source |-> "", success |-> FALSE, data |-> NoData,
                backup_file |-> NonePath]

\* _load_temp_result(source), reading the workspace w.
LoadTempResult(source, trf, wsx, w) ==
    LET base == [set |-> TRUE, source |-> source, success |-> FALSE, data |-> NoData,
                 backup_file |-> NonePath]
    IN  IF ~Falsy(trf) /\ ExistsIn(trf, wsx, w, "absent")
        THEN LET text == w[trf.name]
                 j == JsonLoad(text)
             IN  IF j.ok THEN [base EXCEPT !.success = TRUE, !.data = j.val]
                 ELSE IF Strip(text) # ""
                 THEN [base EXCEPT !.success = TRUE,
                                   !.data = [kind |-> "dict", url |-> "", raw |-> Strip(text)]]
                 ELSE base
        ELSE base

\* _backup_temp_result(source): the backup's path (NonePath: no backup made).
BackupPath(source, trf, wsx, w) ==
    IF ~Falsy(trf) /\ ExistsIn(trf, wsx, w, "absent")
    THEN join(trf.dir, trf.name \o "." \o source \o ".backup")
    ELSE NonePath
\* Mutant: no copy of the report is made.
BackupWsNoCopy(source, trf, wsx, w) == IF wsx THEN w ELSE EmptyDir
\* ... and the workspace after the copy.
BackupWs(source, trf, wsx, w) ==
    IF ~Falsy(trf) /\ ExistsIn(trf, wsx, w, "absent")
    THEN Put(w, trf.name \o "." \o source \o ".backup", w[trf.name])
    ELSE w

\* ------------------------------------------------------- _check_environment
\* Mutant: the account group demands both identifiers.
MissingVarsBothAccounts(e) ==
    SelectSeq(required_csas, LAMBDA v : e[v] = "")
    \o (IF \E i \in 1..Len(required_csas_account) : e[required_csas_account[i]] = ""
        THEN required_csas_account ELSE <<>>)
    \o SelectSeq(required_office365, LAMBDA v : e[v] = "")

\* Mutant: the check stops at the first missing variable.
MissingVarsFirstOnly(e) ==
    LET all == SelectSeq(required_csas, LAMBDA v : e[v] = "")
               \o (IF \A i \in 1..Len(required_csas_account) :
                         e[required_csas_account[i]] = ""
                   THEN required_csas_account ELSE <<>>)
               \o SelectSeq(required_office365, LAMBDA v : e[v] = "")
    IN  IF all = <<>> THEN <<>> ELSE <<all[1]>>

\* The list `missing` that _check_environment builds from the environment e.
MissingVars(e) ==
    SelectSeq(required_csas, LAMBDA v : e[v] = "")
    \o (IF \A i \in 1..Len(required_csas_account) : e[required_csas_account[i]] = ""
        THEN required_csas_account ELSE <<>>)
    \o SelectSeq(required_office365, LAMBDA v : e[v] = "")

\* Its return value.
check_environment(e) == MissingVars(e) = <<>>

\* ------------------------------------------------------ _write_final_result
successful_uploads(ur) == Len(SelectSeq(ur, LAMBDA r : r.upload_success))

\* The decision table of _write_final_result.
Status(download_success, files_downloaded, succ, attempts) ==
    IF ~download_success /\ files_downloaded = 0 THEN "warning"
    ELSE IF download_success /\ files_downloaded > 0 /\ succ = attempts THEN "success"
    ELSE IF download_success /\ files_downloaded > 0 /\ succ < attempts THEN "warning"
    ELSE "error"

\* Mutant: the uploaded statements are always listed by file name.
UploadedStatementsByName(ur) ==
    LET ok == SelectSeq(ur, LAMBDA r : r.upload_success)
    IN  [i \in 1..Len(ok) |-> ok[i].filename]
\* artifacts['uploaded_statements'] (the key is absent exactly when the list is empty).
UploadedStatements(ur) ==
    LET ok == SelectSeq(ur, LAMBDA r : r.upload_success)
    IN  [i \in 1..Len(ok) |->
            IF ok[i].data.kind = "dict" /\ ok[i].data.url # "" THEN ok[i].data.url
            ELSE ok[i].filename]

\* artifacts['downloaded_statements'] (absent exactly when empty).
DownloadedStatements(df) == [i \in 1..Len(df) |-> basename(df[i])]

NoDoc == [written |-> FALSE, status |-> "", uploaded_statements |-> <<>>,
          downloaded_statements |-> <<>>,
          metrics |-> [files_downloaded |-> 0, upload_attempts |-> 0,
                       successful_uploads |-> 0, download_success |-> ""],
          download_details |-> EmptyResult, upload_details |-> <<>>]

\* final_result as _write_final_result assembles it.
FinalResult(dr, df, ur) ==
    [written |-> TRUE,
     status |-> Status(dr.success, Len(df), successful_uploads(ur), Len(ur)),
     uploaded_statements |-> UploadedStatements(ur),
     downloaded_statements |-> DownloadedStatements(df),
     metrics |-> [files_downloaded |-> Len(df), upload_attempts |-> Len(ur),
                  successful_uploads |-> successful_uploads(ur),
                  download_success |-> IF dr.success THEN "true" ELSE "false"],
     download_details |-> dr, upload_details |-> ur]

\* ------------------------------------------------------ json.dump / json.load
\* The report file's text is a sequence of JSON tokens, each with its lexical
\* class: punctuation, a number or a string.  A JSON value read back is
\* [t, lex, kids]: t is "int", "str", "arr" or "obj", lex the text of a number
\* or the content of a string, kids the members [k, v] of an object or the
\* items (k = "") of an array.
Digits == <<"0", "1", "2", "3", "4", "5", "6", "7", "8", "9">>
Token(class, text) == [class |-> class, text |-> text]
Punct(c) == Token("punct", c)

\* Mutant: numbers are written as strings.
DumpIntQuoted(n) == <<Token("str", Digits[n + 1])>>
\* json.dump of an int, of a str and of a list of str.
DumpInt(n) == <<Token("num", Digits[n + 1])>>
DumpStr(s) == <<Token("str", s)>>
DumpItems(items) ==
    [i \in 1..(2 * Len(items) - 1) |->
        IF i % 2 = 1 THEN DumpStr(items[(i + 1) \div 2])[1] ELSE Punct(",")]
DumpList(items) == <<Punct("[")>> \o DumpItems(items) \o <<Punct("]")>>

\* json.dump of a dict: its members `key: value`, separated by commas.
DumpMember(k, v) == DumpStr(k) \o <<Punct(":")>> \o v
DumpMembers(a, b) ==
    IF a = <<>> THEN b ELSE IF b = <<>> THEN a ELSE a \o <<Punct(",")>> \o b
DumpDict(members) == <<Punct("{")>> \o members \o <<Punct("}")>>

\* json.dump(final_result, f): status, artifacts (a key only for a list that
\* is not empty) and metrics of the document.
JsonDump(doc) ==
    LET artifacts ==
            DumpMembers(
                IF doc.uploaded_statements # <<>>
                THEN DumpMember("uploaded_statements", DumpList(doc.uploaded_statements))
                ELSE <<>>,
                IF doc.downloaded_statements # <<>>
                THEN DumpMember("downloaded_statements", DumpList(doc.downloaded_statements))
                ELSE <<>>)
        metrics ==
            DumpMembers(
                DumpMembers(
                    DumpMember("files_downloaded", DumpInt(doc.metrics.files_downloaded)),
                    DumpMember("upload_attempts", DumpInt(doc.metrics.upload_attempts))),
                DumpMembers(
                    DumpMember("successful_uploads", DumpInt(doc.metrics.successful_uploads)),
                    DumpMember("download_success", DumpStr(doc.metrics.download_success))))
    IN  DumpDict(DumpMembers(DumpMember("status", DumpStr(doc.status)),
                             DumpMembers(DumpMember("artifacts", DumpDict(artifacts)),
                                         DumpMember("metrics", DumpDict(metrics)))))

\* json.load: a recursive-descent reader of the tokens ts from position i,
\* giving the value read and the position after it.
JsonLeaf(type, text) == [t |-> type, lex |-> text, kids |-> <<>>]
RECURSIVE JsonValue(_, _)
RECURSIVE JsonMembers(_, _, _, _)
JsonMembers(ts, i, close, acc) ==
    IF ts[i] = Punct(close)
    THEN [v |-> [t |-> IF close = "}" THEN "obj" ELSE "arr", lex |-> "", kids |-> acc],
          next |-> i + 1]
    ELSE IF ts[i] = Punct(",") THEN JsonMembers(ts, i + 1, close, acc)
    ELSE IF close = "}"
    THEN LET r == JsonValue(ts, i + 2)
         IN  JsonMembers(ts, r.next, close, Append(acc, [k |-> ts[i].text, v |-> r.v]))
    ELSE LET r == JsonValue(ts, i)
         IN  JsonMembers(ts, r.next, close, Append(acc, [k |-> "", v |-> r.v]))
JsonValue(ts, i) ==
    IF ts[i] = Punct("{") THEN JsonMembers(ts, i + 1, "}", <<>>)
    ELSE IF ts[i] = Punct("[") THEN JsonMembers(ts, i + 1, "]", <<>>)
    ELSE IF ts[i].class = "num" THEN [v |-> JsonLeaf("int", ts[i].text), next |-> i + 1]
    ELSE [v |-> JsonLeaf("str", ts[i].text), next |-> i + 1]
JsonParse(ts) == JsonValue(ts, 1).v

\* ------------------------------------------------------------ control flow
Event(e, p) == [ev |-> e, path |-> p, rf |-> env_result_file]

\* Mutant: run() goes on to the next stage whatever the stage returned.
StageReturnsIgnored(value, code, next) ==
    /\ raised' = raised
    /\ IF in_run
       THEN /\ pc' = next
            /\ rc' = IF value THEN rc ELSE code
            /\ ret' = ret
       ELSE /\ pc' = "idle"
            /\ rc' = rc
            /\ ret' = IF value THEN "true" ELSE "false"

\* A stage returned `value` to its caller: run() maps a false value to its
\* exit code `code` and goes to its finally block, a direct caller gets it.
StageReturns(value, code, next) ==
    /\ raised' = raised
    /\ IF in_run
       THEN /\ pc' = IF value THEN next ELSE "finally"
            /\ rc' = IF value THEN rc ELSE code
            /\ ret' = ret
       ELSE /\ pc' = "idle"
            /\ rc' = rc
            /\ ret' = IF value THEN "true" ELSE "false"

\* Mutant: the exception is handled without a finally block behind it.
StageRaisesPastFinally(stage) ==
    /\ raised' = stage
    /\ IF in_run
       THEN pc' = (IF api THEN "idle" ELSE "done") /\ rc' = 4 /\ ret' = ret
       ELSE pc' = "idle" /\ rc' = rc /\ ret' = "raised"

\* A stage raised: run()'s `except Exception` returns 4; a direct caller sees it.
StageRaises(stage) ==
    /\ raised' = stage
    /\ IF in_run
       THEN pc' = "finally" /\ rc' = 4 /\ ret' = ret
       ELSE pc' = "idle" /\ rc' = rc /\ ret' = "raised"

\* -------------------------------------------------------------------- run()
\* run(): `if not self._check_environment(): return 1`.
CheckEnvironment ==
    /\ pc = "check"
    /\ missing' = MissingVars(environ)
    /\ StageReturns(check_environment(environ), 1, "download")
    /\ UNCHANGED <<environ, env_result_file, ws_exists, ws, out_file, final_doc, report_text,
                   original_result_file, temp_result_file, downloaded_files,
                   download_result, upload_results, idx, success_count,
                   cleanup_arg, api, in_run, calls, log,
                   dl_exit, dl_wrote, dl_names, skipped>>

\* ------------------------------------------------------ download_statements
\* Mutant: the collaborators are left to write to the final report path.
TempResultFileInPlace(original) == original
\* _setup_temp_result_file: the path given to the collaborators as RESULT_FILE
\* when the final report path is `original`.
TempResultFile(original) == join(TempDir, TempName)

\* download_statements up to subprocess.run: _setup_temp_result_file, then the
\* downloader is started with a copy of the environment.
DownloadInvoke ==
    /\ pc = "download"
    /\ temp_result_file' = IF ~Falsy(original_result_file)
                           THEN TempResultFile(original_result_file) ELSE temp_result_file
    /\ env_result_file' = IF ~Falsy(original_result_file)
                          THEN TempResultFile(original_result_file) ELSE env_result_file
    /\ log' = Append(log, [ev |-> "invoke_downloader", path |-> NonePath,
                           rf |-> env_result_file'])
    /\ pc' = "downloader"
    /\ UNCHANGED <<environ, ws_exists, ws, out_file, final_doc, report_text, original_result_file,
                   downloaded_files, download_result, upload_results, missing,
                   idx, success_count, cleanup_arg, rc, api, in_run, calls, ret,
                   dl_exit, dl_wrote, dl_names, skipped, raised>>

\* What a collaborator leaves in the workspace w: n statement files (the
\* downloader only) and, when RESULT_FILE names a workspace file, a report.
RECURSIVE WithStatements(_, _)
WithStatements(w, n) ==
    IF n = 0 THEN w ELSE Put(WithStatements(w, n - 1), StmtNames[n], "%PDF")
CollaboratorWrites(w, n, text) ==
    IF text = NoWrite THEN WithStatements(w, n)
    ELSE Put(WithStatements(w, n), env_result_file.name, text)

\* The outcomes a collaborator run can have in the current state: one that
\* could not be started wrote nothing, one whose target directory is gone
\* writes nothing and does not exit 0, and a report is written only to the
\* RESULT_FILE of the environment it was given.
CanEnd(exit, n, text) ==
    /\ (exit = "oserror" \/ ~ws_exists) => (n = 0 /\ text = NoWrite)
    /\ ~ws_exists => exit # "zero"
    /\ (Falsy(env_result_file) \/ env_result_file.dir # TempDir) => text = NoWrite

\* Mutant: the workspace is scanned however the downloader ended.
DiscoveredFilesAnyExit(exit, old, found) == IF exit = "oserror" THEN old ELSE found
\* `if result.returncode == 0: self.downloaded_files = [...]`: the field is
\* assigned the files found only after exit 0, and left as it was otherwise.
DiscoveredFiles(exit, old, found) == IF exit = "zero" THEN found ELSE old

\* The downloader ends, and download_statements runs from the return of
\* subprocess.run to its own return (or lets OSError through).
DownloaderReturns(exit, n, text) ==
    /\ pc = "downloader"
    /\ CanEnd(exit, n, text)
    /\ dl_exit' = exit
    /\ dl_wrote' = text
    /\ dl_names' = IF ws_exists THEN DOMAIN CollaboratorWrites(ws, n, text) ELSE {}
    /\ LET w1 == CollaboratorWrites(ws, n, text)
           loaded == LoadTempResult("download", temp_result_file, ws_exists, w1)
           backup == BackupPath("download", temp_result_file, ws_exists, w1)
       IN  IF exit = "oserror"
           THEN /\ StageRaises("download")
                /\ UNCHANGED <<ws, downloaded_files, download_result>>
           ELSE /\ downloaded_files' =
                       DiscoveredFiles(exit, downloaded_files,
                                       SelectPaths(glob(ws_exists, w1), temp_result_file))
                /\ download_result' = [loaded EXCEPT !.backup_file = backup]
                /\ ws' = BackupWs("download", temp_result_file, ws_exists, w1)
                /\ StageReturns(exit = "zero", 2, "upload")
    /\ UNCHANGED <<environ, env_result_file, ws_exists, out_file, final_doc, report_text,
                   original_result_file, temp_result_file, upload_results, missing,
                   idx, success_count, cleanup_arg, api, in_run, calls, log, skipped>>

\* ----------------------------------------------------- upload_to_sharepoint
\* Mutant: the guard lets an empty list through to the loop.
NoFilesToUploadUnguarded(df) == Len(df) < 0
\* `if not self.downloaded_files`
NoFilesToUpload(df) == df = <<>>

\* Mutant: the loop is left at the first file that fails.
NextFileStopOnFailure(i, n, ok) == IF ok THEN i + 1 ELSE n + 1
\* Mutant: a file that fails is tried again.
NextFileRetry(i, n, ok) == IF ok THEN i + 1 ELSE i
\* `for file_path in self.downloaded_files`: the index after file i of n,
\* whether or not the file was uploaded.
NextFile(i, n, ok) == i + 1

\* upload_to_sharepoint: the `if not self.downloaded_files` guard, then the
\* loop is entered.
UploadBegin ==
    /\ pc = "upload"
    /\ skipped' = <<>>
    /\ IF NoFilesToUpload(downloaded_files)
       THEN /\ StageReturns(FALSE, 3, "finally")
            /\ UNCHANGED <<idx, success_count>>
       ELSE /\ idx' = 1
            /\ success_count' = 0
            /\ pc' = "upload_loop"
            /\ UNCHANGED <<rc, ret, raised>>
    /\ UNCHANGED <<environ, env_result_file, ws_exists, ws, out_file, final_doc, report_text,
                   original_result_file, temp_result_file, downloaded_files,
                   download_result, upload_results, missing, cleanup_arg, api,
                   in_run, calls, log,
                   dl_exit, dl_wrote, dl_names>>

\* Loop body, `if not os.path.exists(file_path): continue`.
UploadSkipMissing ==
    /\ pc = "upload_loop"
    /\ idx <= Len(downloaded_files)
    /\ ~PathExists(downloaded_files[idx])
    /\ idx' = NextFile(idx, Len(downloaded_files), FALSE)
    /\ skipped' = Append(skipped, downloaded_files[idx])
    /\ UNCHANGED <<environ, env_result_file, ws_exists, ws, out_file, final_doc, report_text,
                   original_result_file, temp_result_file, downloaded_files,
                   download_result, upload_results, missing, pc, success_count,
                   cleanup_arg, rc, api, in_run, calls, ret, log,
                   dl_exit, dl_wrote, dl_names, raised>>

\* Loop body up to subprocess.run: the temporary report is cleared and the
\* uploader is started on the file.
UploadInvoke ==
    /\ pc = "upload_loop"
    /\ idx <= Len(downloaded_files)
    /\ PathExists(downloaded_files[idx])
    /\ ws' = IF ~Falsy(temp_result_file) /\ PathExists(temp_result_file)
             THEN Remove(ws, temp_result_file.name) ELSE ws
    /\ log' = Append(log, Event("invoke_uploader", downloaded_files[idx]))
    /\ pc' = "uploader"
    /\ UNCHANGED <<environ, env_result_file, ws_exists, out_file, final_doc, report_text,
                   original_result_file, temp_result_file, downloaded_files,
                   download_result, upload_results, missing, idx, success_count,
                   cleanup_arg, rc, api, in_run, calls, ret,
                   dl_exit, dl_wrote, dl_names, skipped, raised>>

\* self.upload_results.append(upload_result)
AppendRecordTwice(ur, record) == Append(Append(ur, record), record)
AppendRecord(ur, record) == Append(ur, record)

\* The uploader ends, and the loop body runs from the return of
\* subprocess.run to the append of the file's record.
UploaderReturns(exit, text) ==
    /\ pc = "uploader"
    /\ CanEnd(exit, 0, text)
    /\ LET file_path == downloaded_files[idx]
           w1 == CollaboratorWrites(ws, 0, text)
           source == "upload_" \o basename(file_path)
           loaded == LoadTempResult("upload", temp_result_file, ws_exists, w1)
           record == [source |-> loaded.source, success |-> loaded.success,
                      data |-> loaded.data,
                      filename |-> basename(file_path),
                      filepath |-> file_path,
                      upload_success |-> (exit = "zero"),
                      backup_file |-> BackupPath(source, temp_result_file, ws_exists, w1)]
       IN  IF exit = "oserror"
           THEN /\ StageRaises("upload")
                /\ UNCHANGED <<ws, upload_results, idx, success_count>>
           ELSE /\ success_count' = IF exit = "zero" THEN success_count + 1
                                    ELSE success_count
                /\ ws' = BackupWs(source, temp_result_file, ws_exists, w1)
                /\ upload_results' = AppendRecord(upload_results, record)
                /\ idx' = NextFile(idx, Len(downloaded_files), exit = "zero")
                /\ pc' = "upload_loop"
                /\ UNCHANGED <<rc, ret, raised>>
    /\ UNCHANGED <<environ, env_result_file, ws_exists, out_file, final_doc, report_text,
                   original_result_file, temp_result_file, downloaded_files,
                   download_result, missing, cleanup_arg, api, in_run, calls, log,
                   dl_exit, dl_wrote, dl_names, skipped>>

\* Mutant: one uploaded file is not enough for the stage to succeed.
UploadExitCodeNeedsTwo(count) == IF count > 1 THEN 0 ELSE 3
\* Mutant: run() returns 0 once the upload stage is over.
UploadExitCodeAlwaysZero(count) == IF count >= 0 THEN 0 ELSE 3
\* run(): `if not self.upload_to_sharepoint(...): return 3`, else `return 0`,
\* for the stage's `return success_count > 0`.
UploadExitCode(count) == IF count > 0 THEN 0 ELSE 3

\* The loop is over: `return success_count > 0`; run() returns 3 or 0.
UploadEnd ==
    /\ pc = "upload_loop"
    /\ idx > Len(downloaded_files)
    /\ IF in_run
       THEN /\ pc' = "finally"
            /\ rc' = UploadExitCode(success_count)
            /\ ret' = ret
       ELSE /\ pc' = "idle"
            /\ rc' = rc
            /\ ret' = IF success_count > 0 THEN "true" ELSE "false"
    /\ UNCHANGED <<environ, env_result_file, ws_exists, ws, out_file, final_doc, report_text,
                   original_result_file, temp_result_file, downloaded_files,
                   download_result, upload_results, missing, idx, success_count,
                   cleanup_arg, api, in_run, calls, log,
                   dl_exit, dl_wrote, dl_names, skipped, raised>>

\* Another process removes the file the loop is about to look at (the case
\* the loop's os.path.exists test is there for).
FileDisappears ==
    /\ pc = "upload_loop"
    /\ idx <= Len(downloaded_files)
    /\ PathExists(downloaded_files[idx])
    /\ ws' = Remove(ws, downloaded_files[idx].name)
    /\ UNCHANGED <<environ, env_result_file, ws_exists, out_file, final_doc, report_text,
                   original_result_file, temp_result_file, downloaded_files,
                   download_result, upload_results, missing, pc, idx, success_count,
                   cleanup_arg, rc, api, in_run, calls, ret, log,
                   dl_exit, dl_wrote, dl_names, skipped, raised>>

\* ------------------------------------------------------ run()'s finally block
\* Mutant: the aggregator falls back to a default report location.
ReportTargetDefaulted == IF Falsy(original_result_file) THEN OutPath
                         ELSE original_result_file
\* _write_final_result: `if not self.original_result_file: return`; the
\* path it writes to (NonePath: none).
ReportTarget == original_result_file

\* _write_final_result, then _restore_result_file_env.
WriteFinalResult ==
    /\ pc = "finally"
    /\ LET doc == FinalResult(download_result, downloaded_files, upload_results)
           target == ReportTarget
           inside == target.dir = TempDir
           \* open(self.original_result_file, 'w') fails when its directory is gone
           writable == ~inside \/ ws_exists
       IN  IF Falsy(target)
           THEN /\ log' = Append(log, Event("aggregate", NonePath))
                /\ UNCHANGED <<ws, out_file, final_doc, report_text>>
           ELSE IF writable
           THEN /\ final_doc' = doc
                /\ report_text' = JsonDump(final_doc')
                /\ ws' = IF inside THEN Put(ws, target.name, "final") ELSE ws
                /\ out_file' = IF inside THEN out_file ELSE "final"
                /\ log' = log \o <<Event("aggregate", NonePath),
                                    Event("write_report", target)>>
           ELSE /\ log' = Append(log, Event("aggregate", NonePath))
                /\ UNCHANGED <<ws, out_file, final_doc, report_text>>
    /\ env_result_file' = IF ~Falsy(original_result_file) THEN original_result_file
                          ELSE NonePath
    /\ pc' = "cleanup"
    /\ UNCHANGED <<environ, ws_exists, original_result_file, temp_result_file,
                   downloaded_files, download_result, upload_results, missing, idx,
                   success_count, cleanup_arg, rc, api, in_run, calls, ret,
                   dl_exit, dl_wrote, dl_names, skipped, raised>>

\* Mutant: the workspace is kept for inspection when the run failed.
RunsCleanupOnSuccess(cleanup, code) == cleanup /\ code = 0
\* `if cleanup:` in run()'s finally block, whatever value is being returned.
RunsCleanup(cleanup, code) == cleanup

\* `if cleanup: self.cleanup()`, and run() returns rc.
Finish ==
    /\ pc = "cleanup"
    /\ IF RunsCleanup(cleanup_arg, rc) /\ ws_exists
       THEN /\ ws_exists' = FALSE
            /\ ws' = EmptyDir
            /\ log' = Append(log, Event("cleanup", join(TempDir, "")))
       ELSE UNCHANGED <<ws_exists, ws, log>>
    /\ pc' = IF api THEN "idle" ELSE "done"
    /\ in_run' = FALSE
    /\ UNCHANGED <<environ, env_result_file, out_file, final_doc, report_text,
                   original_result_file, temp_result_file, downloaded_files,
                   download_result, upload_results, missing, idx, success_count,
                   cleanup_arg, rc, api, calls, ret,
                   dl_exit, dl_wrote, dl_names, skipped, raised>>

\* ------------------------------------------------------------- construction
\* What a caller-supplied workspace directory may already hold: nothing, or
\* the leftovers of an earlier run made with --no-cleanup.
StaleDir == Put(Put(EmptyDir, TempName, JsonPlain), DownloadBackupName, JsonPlain)
InitWorkspaces == {EmptyDir, StaleDir}

\* The object after __init__, in a process whose RESULT_FILE is rf.
Constructed(rf) ==
    /\ original_result_file = rf
    /\ env_result_file = rf
    /\ temp_result_file = NonePath
    /\ downloaded_files = <<>>
    /\ download_result = EmptyResult
    /\ upload_results = <<>>
    /\ ws_exists = TRUE
    /\ final_doc = NoDoc
    /\ report_text = <<>>
    /\ missing = <<>>
    /\ idx = 0
    /\ success_count = 0
    /\ rc = -1
    /\ ret = "none"
    /\ calls = 0
    /\ log = <<>>
    /\ dl_exit = "none"
    /\ dl_wrote = NoWrite
    /\ dl_names = {}
    /\ skipped = <<>>
    /\ raised = "none"

\* main(): the uploader is constructed and run() is called once.
Init ==
    /\ environ \in [EnvVars -> {"", "x"}]
    /\ \E rf \in ReportPaths : Constructed(rf)
    /\ ws \in InitWorkspaces
    /\ out_file = "absent"
    /\ cleanup_arg \in BOOLEAN
    /\ api = FALSE
    /\ in_run = TRUE
    /\ pc = "check"

\* The steps of the pipeline, the downloader writing at most nmax files.
Stages(nmax) ==
    \/ CheckEnvironment
    \/ DownloadInvoke
    \/ \E exit \in Exits, n \in 0..nmax, text \in ReportTexts \cup {NoWrite} :
          DownloaderReturns(exit, n, text)
    \/ UploadBegin
    \/ UploadSkipMissing
    \/ UploadInvoke
    \/ \E exit \in Exits, text \in UploadReportTexts \cup {NoWrite} :
          UploaderReturns(exit, text)
    \/ UploadEnd
    \/ FileDisappears
    \/ WriteFinalResult
    \/ Finish

Next == Stages(MaxFiles)

Spec == Init /\ [][Next]_vars

\* ------------------------------------------- the object's methods, called directly
\* A client (the unit tests do this) calls the public methods of one
\* uploader object itself, in any order.
CallRun(cleanup) ==
    /\ pc = "idle"
    /\ calls < MaxCalls
    /\ calls' = calls + 1
    /\ in_run' = TRUE
    /\ cleanup_arg' = cleanup
    /\ rc' = -1
    /\ raised' = "none"
    /\ pc' = "check"
    /\ UNCHANGED <<environ, env_result_file, ws_exists, ws, out_file, final_doc, report_text,
                   original_result_file, temp_result_file, downloaded_files,
                   download_result, upload_results, missing, idx, success_count,
                   api, ret, log,
                   dl_exit, dl_wrote, dl_names, skipped>>

CallDownload ==
    /\ pc = "idle"
    /\ calls < MaxCalls
    /\ calls' = calls + 1
    /\ pc' = "download"
    /\ UNCHANGED <<environ, env_result_file, ws_exists, ws, out_file, final_doc, report_text,
                   original_result_file, temp_result_file, downloaded_files,
                   download_result, upload_results, missing, idx, success_count,
                   cleanup_arg, rc, api, in_run, ret, log,
                   dl_exit, dl_wrote, dl_names, skipped, raised>>

CallUpload ==
    /\ pc = "idle"
    /\ calls < MaxCalls
    /\ calls' = calls + 1
    /\ pc' = "upload"
    /\ UNCHANGED <<environ, env_result_file, ws_exists, ws, out_file, final_doc, report_text,
                   original_result_file, temp_result_file, downloaded_files,
                   download_result, upload_results, missing, idx, success_count,
                   cleanup_arg, rc, api, in_run, ret, log,
                   dl_exit, dl_wrote, dl_names, skipped, raised>>

\* A complete environment: the one the validator accepts with both account
\* identifiers set.
FullEnv == [v \in EnvVars |-> "x"]

\* An uploader constructed on a fresh workspace, with no RESULT_FILE in the
\* environment, not yet used.
InitCalls ==
    /\ environ \in {FullEnv, [FullEnv EXCEPT !["OFFICE365_SITE"] = ""]}
    /\ Constructed(NonePath)
    /\ ws = EmptyDir
    /\ out_file = "absent"
    /\ cleanup_arg = FALSE
    /\ api = TRUE
    /\ in_run = FALSE
    /\ pc = "idle"

NextCalls ==
    \/ \E c \in BOOLEAN : CallRun(c)
    \/ CallDownload
    \/ CallUpload
    \/ Stages(MaxCallFiles)

SpecCalls == InitCalls /\ [][NextCalls]_vars

\* =================================================================== claims
\* The events of one kind in the history, and where an event kind occurs.
Positions(kind) == {i \in 1..Len(log) : log[i].ev = kind}
Invocations == Positions("invoke_downloader") \cup Positions("invoke_uploader")

\* run() has returned (main() calls it once).
Returned == pc = "done"
\* A report path is configured.
Configured == ~Falsy(original_result_file)
\* Every uploader that was started exited 0.
AllUploadsExitedZero ==
    /\ raised # "upload"
    /\ \A i \in 1..Len(upload_results) : upload_results[i].upload_success

\* C1: when the downloader exits 0, at least one file is discovered and every
\* attempted upload exits 0, the final report's status is `success`, whether
\* or not the downloader wrote a side-effect report.
C1_SuccessStatus ==
    (/\ Returned
     /\ Configured
     /\ dl_exit = "zero"
     /\ Len(downloaded_files) > 0
     /\ AllUploadsExitedZero)
    => (final_doc.written /\ final_doc.status = "success")

\* C2: download succeeded with N >= 2 files, every file was attempted and
\* exactly k of them exited 0 with 0 < k < N: run() returns 0 and the final
\* report is `warning` with successful_uploads = k and upload_attempts = N.
C2_PartialWarning ==
    LET N == Len(downloaded_files)
        k == Cardinality({i \in 1..Len(upload_results) : upload_results[i].upload_success})
    IN  (/\ Returned
         /\ dl_exit = "zero"
         /\ raised = "none"
         /\ N >= 2
         /\ Len(upload_results) = N
         /\ 0 < k
         /\ k < N)
        => /\ rc = 0
           /\ Configured =>
                 /\ final_doc.status = "warning"
                 /\ final_doc.metrics.successful_uploads = k
                 /\ final_doc.metrics.upload_attempts = N

\* C3: when the download stage did not succeed (non-zero exit or timeout) and
\* zero files were discovered, the final report's status is `warning`, whether
\* or not the downloader left a side-effect report.
C3_FailedDownloadWarning ==
    (/\ Returned
     /\ Configured
     /\ dl_exit \in {"nonzero", "timeout"}
     /\ downloaded_files = <<>>)
    => (final_doc.written /\ final_doc.status = "warning")

\* The counts the aggregator derives from the object's fields.
files_downloaded == Len(downloaded_files)
upload_attempts == Len(upload_results)
CountsOrdered ==
    /\ Len(upload_results) <= Len(downloaded_files)
    /\ successful_uploads(upload_results) <= upload_attempts
    /\ upload_attempts <= files_downloaded

\* C4 as stated: after any sequence of download_statements /
\* upload_to_sharepoint / run calls on an uploader object, the upload records
\* never outnumber the discovered files and
\* successful_uploads <= upload_attempts <= files_downloaded.
C4_AnySequence == CountsOrdered

\* C4 amended: the same holds during and after the first operation called on
\* a freshly constructed uploader (the single run() that main() makes, or one
\* direct download_statements or upload_to_sharepoint call).
C4_FirstOperation == calls <= 1 => CountsOrdered

\* C4 witness: the first operation was a run() that uploaded two files, one
\* of them successfully.
C4_Witness ==
    /\ calls = 1
    /\ pc = "idle"
    /\ rc = 0
    /\ Len(upload_results) = 2
    /\ successful_uploads(upload_results) = 1

\* The downloader failed: non-zero exit or timeout.
DownloadFailed == dl_exit \in {"nonzero", "timeout"}
\* run()'s finally block has been entered.
InFinally == pc \in {"finally", "cleanup", "done"}

\* C5: run() returns 1 if the environment check fails, otherwise 2 if the
\* download stage reports failure, otherwise 3 if the upload stage reports
\* failure (no upload exited 0), otherwise 0; and 4 if a stage raised.
C5_ExitCodes ==
    Returned =>
        /\ rc \in 0..4
        /\ rc = IF ~check_environment(environ) THEN 1
                ELSE IF raised # "none" THEN 4
                ELSE IF DownloadFailed THEN 2
                ELSE IF \A i \in 1..Len(upload_results) : ~upload_results[i].upload_success
                     THEN 3
                ELSE 0

\* C5 witness: run() returned 3 after the uploader failed on two files.
C5_Witness ==
    /\ Returned
    /\ rc = 3
    /\ Len(upload_results) = 2
    /\ Cardinality(Positions("invoke_uploader")) = 2

\* C6: when the environment check fails no collaborator is ever invoked, when
\* the download stage fails the uploader is never invoked, and a failed stage
\* leads straight to the end of run().
C6_FailClosed ==
    /\ (pc # "check" /\ ~check_environment(environ)) =>
            (Invocations = {} /\ rc = 1 /\ InFinally)
    /\ dl_exit \in {"nonzero", "timeout", "oserror"} =>
            (Positions("invoke_uploader") = {} /\ rc \in {2, 4} /\ InFinally)

\* C6 witness: the downloader timed out after writing a statement file, and
\* run() has returned 2 with the file still in the workspace.
C6_Witness ==
    /\ Returned
    /\ rc = 2
    /\ dl_exit = "timeout"
    /\ ws_exists
    /\ StmtNames[1] \in DOMAIN ws

\* C7: whichever stage fails or raises, run() goes on to its end: the
\* aggregator runs once, after every collaborator invocation, the cleanup
\* runs after it unless suppressed, and an exception gives exit code 4.
C7_FinallyAlwaysRuns ==
    /\ pc # "done" => ENABLED Next
    /\ raised # "none" => (rc = 4 /\ InFinally)
    /\ Returned =>
          /\ rc \in 0..4
          /\ Cardinality(Positions("aggregate")) = 1
          /\ \A i \in Invocations : \A a \in Positions("aggregate") : i < a
          /\ cleanup_arg =>
                /\ ~ws_exists
                /\ Cardinality(Positions("cleanup")) = 1
                /\ \A a \in Positions("aggregate") : \A c \in Positions("cleanup") : a < c
          /\ ~cleanup_arg => (ws_exists /\ Positions("cleanup") = {})

\* C7 witness: the uploader could not be started for the second file; run()
\* returned 4 with the report written and the workspace removed.
C7_Witness ==
    /\ Returned
    /\ raised = "upload"
    /\ rc = 4
    /\ Len(upload_results) = 1
    /\ cleanup_arg
    /\ final_doc.written
    /\ ~ws_exists

\* C8: the final report is written exactly once per run, after the last
\* collaborator invocation and before the workspace is removed; without a
\* report path nothing is ever written.
C8_ReportWrittenOnce ==
    /\ Cardinality(Positions("write_report")) <= 1
    /\ \A w \in Positions("write_report") :
          /\ log[w].path = original_result_file
          /\ \A i \in Invocations : i < w
          /\ \A c \in Positions("cleanup") : w < c
    /\ (Configured /\ pc \in {"cleanup", "done"}) =>
            (Cardinality(Positions("write_report")) = 1 /\ final_doc.written)
    /\ (Configured /\ pc = "cleanup") => PathExists(original_result_file)
    /\ ~Configured =>
          /\ Positions("write_report") = {}
          /\ final_doc = NoDoc
          /\ out_file = "absent"
          /\ \A n \in DOMAIN ws : ws[n] # "final"

\* C8 witness: a run with a report path, an upload and cleanup has returned.
C8_Witness ==
    /\ Returned
    /\ Configured
    /\ cleanup_arg
    /\ Len(upload_results) = 1
    /\ Cardinality(Positions("write_report")) = 1
    /\ Cardinality(Positions("cleanup")) = 1

\* The claim's condition on the environment, stated on its own.
EnvComplete(e) ==
    /\ e["CSAS_API_KEY"] # ""
    /\ e["CSAS_ACCESS_TOKEN"] # ""
    /\ e["OFFICE365_TENANT"] # ""
    /\ e["OFFICE365_SITE"] # ""
    /\ (e["CSAS_ACCOUNT_UUID"] # "" \/ e["CSAS_ACCOUNT_IBAN"] # "")

\* C9: the validator accepts exactly the environments in which the two
\* credentials and the two service locations are set and at least one of the
\* two account identifiers is.
C9_ValidatorAccepts ==
    pc # "check" => ((rc # 1) <=> EnvComplete(environ))

\* C9 witness: accepted with only the IBAN of the account group set.
C9_Witness ==
    /\ pc = "download"
    /\ environ["CSAS_ACCOUNT_UUID"] = ""
    /\ environ["CSAS_ACCOUNT_IBAN"] # ""

\* C10: when something required is missing the validator rejects and its one
\* list names every missing required variable and none that is set; both
\* account identifiers are named when neither is set.
C10_AllMissingListed ==
    LET listed == {missing[i] : i \in 1..Len(missing)}
        unset == {v \in EnvVars : environ[v] = ""}
        accounts == {"CSAS_ACCOUNT_UUID", "CSAS_ACCOUNT_IBAN"}
        wanted == (unset \ accounts) \cup (IF accounts \subseteq unset THEN accounts ELSE {})
    IN  (pc # "check" /\ ~EnvComplete(environ)) =>
            /\ rc = 1
            /\ listed = wanted
            /\ listed \subseteq unset
            /\ Len(missing) = Cardinality(listed)

\* C10 witness: rejected with neither account identifier and no site set, and
\* all three are listed while the API key, which is set, is not.
C10_Witness ==
    /\ pc # "check"
    /\ environ["CSAS_API_KEY"] # ""
    /\ Len(missing) = 3
    /\ missing = <<"CSAS_ACCOUNT_UUID", "CSAS_ACCOUNT_IBAN", "OFFICE365_SITE">>

\* C11: after the downloader exits non-zero or times out, no exception has
\* left download_statements, the stage has reported failure (run() returns
\* 2 and is on its way out) and the downloaded-files list is empty, whatever
\* the downloader left in the workspace.
C11_DownloadFailure ==
    DownloadFailed =>
        /\ raised = "none"
        /\ rc = 2
        /\ InFinally
        /\ downloaded_files = <<>>

\* C11 witness: the downloader exited non-zero after writing two statement
\* files and a report that is not JSON.
C11_Witness ==
    /\ pc = "finally"
    /\ dl_exit = "nonzero"
    /\ dl_wrote = Garbage
    /\ StmtNames[2] \in dl_names
    /\ downloaded_files = <<>>
    /\ rc = 2

\* The names of the files in the downloaded-files list.
DownloadedNames == {downloaded_files[i].name : i \in 1..Len(downloaded_files)}

\* C12: after the downloader exits 0 with N files in the workspace, not
\* counting the file with the reserved report name, the downloaded-files list
\* has exactly N entries: each of those files, and not the report file.
C12_DiscoveredExactly ==
    dl_exit = "zero" =>
        /\ DownloadedNames = dl_names \ {TempName}
        /\ Len(downloaded_files) = Cardinality(dl_names \ {TempName})
        /\ TempName \notin DownloadedNames

\* C13: entered with no downloaded files, the upload stage reports failure
\* in its first step (run() returns 3), starting no uploader and adding no
\* upload record; no uploader is ever started while the list is empty.
C13_NoFilesNoUpload ==
    /\ [](downloaded_files = <<>> =>
            (Positions("invoke_uploader") = {} /\ upload_results = <<>>))
    /\ [][(pc = "upload" /\ downloaded_files = <<>>) =>
            /\ pc' = "finally"
            /\ rc' = 3
            /\ log' = log
            /\ upload_results' = upload_results]_vars

\* C13 witness: the downloader exited 0 and left no file; run() returned 3
\* without an uploader invocation.
C13_Witness ==
    /\ Returned
    /\ dl_exit = "zero"
    /\ dl_names = {}
    /\ downloaded_files = <<>>
    /\ rc = 3
    /\ Positions("invoke_uploader") = {}
    /\ upload_results = <<>>

\* The upload stage of this run has returned a value to run().
UploadStageReturned ==
    /\ InFinally
    /\ check_environment(environ)
    /\ dl_exit = "zero"
    /\ raised = "none"

\* C14: the upload stage reports success (run() returns 0) if and only if
\* at least one uploader invocation exited 0, and failure (run() returns 3)
\* only when none did.
C14_StageSuccessIffOneUploaded ==
    UploadStageReturned =>
        LET uploaded == {i \in 1..Len(upload_results) : upload_results[i].upload_success}
        IN  /\ rc \in {0, 3}
            /\ rc = 0 <=> uploaded # {}
            /\ rc = 3 <=> uploaded = {}

\* C14 witness: of two files the first upload failed and the second exited 0,
\* and run() returned 0.
C14_Witness ==
    /\ Returned
    /\ rc = 0
    /\ Len(downloaded_files) = 2
    /\ Len(upload_results) = 2
    /\ ~upload_results[1].upload_success
    /\ upload_results[2].upload_success

\* The files the uploader was started on, in the order of the invocations.
UploaderPaths ==
    LET started == SelectSeq(log, LAMBDA e : e.ev = "invoke_uploader")
    IN  [i \in 1..Len(started) |-> started[i].path]
\* The downloaded files the stage did not skip as missing, in list order.
NotSkipped ==
    SelectSeq(downloaded_files,
              LAMBDA p : \A j \in 1..Len(skipped) : skipped[j] # p)

\* C15: a file whose upload times out or exits non-zero, or which is missing,
\* does not end the upload stage: every file before the loop's position has
\* been given to the uploader or skipped as missing, the loop can always go
\* on to the next file, and when the stage returns the uploader has been
\* started, in list order, on every downloaded file that existed at its turn.
C15_PerFileFailureNotFatal ==
    /\ pc = "upload_loop" =>
          /\ Len(UploaderPaths) + Len(skipped) = idx - 1
          /\ idx <= Len(downloaded_files) => ENABLED (UploadInvoke \/ UploadSkipMissing)
    /\ pc = "uploader" => Len(UploaderPaths) + Len(skipped) = idx
    /\ (UploadStageReturned /\ downloaded_files # <<>>) =>
          /\ Len(UploaderPaths) + Len(skipped) = Len(downloaded_files)
          /\ UploaderPaths = NotSkipped
          /\ Len(upload_results) = Len(UploaderPaths)

\* C15 witness: of three files the first upload failed, the second file was
\* missing and the third was still uploaded.
C15_Witness ==
    /\ Returned
    /\ Len(downloaded_files) = 3
    /\ skipped = <<downloaded_files[2]>>
    /\ Len(upload_results) = 2
    /\ ~upload_results[1].upload_success
    /\ upload_results[2].filepath = downloaded_files[3]
    /\ upload_results[2].upload_success

\* C16: while a collaborator runs, the side-effect report file held nothing
\* when it was started (it is absent right after the start, before the
\* collaborator has written), and a result read after a downloader that
\* wrote no report holds no data, also in a caller-supplied workspace that
\* already held a report file.
C16_NoStaleReport ==
    /\ (pc \in {"downloader", "uploader"} /\ ~Falsy(temp_result_file)) =>
            ~PathExists(temp_result_file)
    /\ (dl_exit \in {"zero", "nonzero", "timeout"} /\ dl_wrote = NoWrite) =>
            (~download_result.success /\ download_result.data = NoData)

\* C17: whenever the report file read after the downloader exists and is not
\* valid JSON (text that is not JSON, or nothing but whitespace), the reader
\* returns without raising a result marked captured whose payload is that
\* text under a single key.
C17_InvalidJsonCaptured ==
    (/\ dl_exit \in {"zero", "nonzero", "timeout"}
     /\ dl_wrote # NoWrite
     /\ ~JsonLoad(dl_wrote).ok) =>
        /\ raised = "none"
        /\ download_result.set
        /\ download_result.success
        /\ download_result.data.kind = "dict"
        /\ download_result.data.raw = dl_wrote

\* C18: when run() has returned with cleanup enabled, whatever its exit code,
\* the workspace directory and everything in it are gone; with cleanup
\* suppressed the directory still exists and the last step of run() changes
\* nothing in it.
C18_CleanupUnlessSuppressed ==
    /\ [](Returned =>
            /\ cleanup_arg => (~ws_exists /\ ws = EmptyDir)
            /\ ~cleanup_arg => ws_exists)
    /\ [][(pc = "cleanup" /\ ~cleanup_arg) =>
            (ws' = ws /\ ws_exists' = ws_exists)]_vars

\* C18 witness: a run with cleanup enabled returned 3 after the downloader
\* had left statement files and a report in the workspace.
C18_Witness ==
    /\ Returned
    /\ cleanup_arg
    /\ rc = 3
    /\ StmtNames[1] \in dl_names
    /\ TempName \in dl_names
    /\ ~ws_exists
    /\ ws = EmptyDir

\* What a reader of the report gets from a parsed JSON value.
HasMember(obj, key) == \E i \in 1..Len(obj.kids) : obj.kids[i].k = key
Member(obj, key) == obj.kids[CHOOSE i \in 1..Len(obj.kids) : obj.kids[i].k = key].v
IsInt(v, n) == v.t = "int" /\ n \in 0..(Len(Digits) - 1) /\ v.lex = Digits[n + 1]
IsStr(v, s) == v.t = "str" /\ v.lex = s
IsStrList(v, items) ==
    /\ v.t = "arr"
    /\ Len(v.kids) = Len(items)
    /\ \A i \in 1..Len(items) : IsStr(v.kids[i].v, items[i])

\* C19: whenever the final report has been written and its file is read
\* back, the status, the metrics and the artifacts read are the values the
\* aggregator computes from the download result, the upload records and the
\* downloaded files of that run.
C19_RoundTrip ==
    (final_doc.written /\ PathExists(original_result_file)) =>
        LET computed == FinalResult(download_result, downloaded_files, upload_results)
            read == JsonParse(report_text)
            artifacts == Member(read, "artifacts")
            metrics == Member(read, "metrics")
        IN  /\ read.t = "obj"
            /\ IsStr(Member(read, "status"), computed.status)
            /\ metrics.t = "obj"
            /\ Len(metrics.kids) = 4
            /\ IsInt(Member(metrics, "files_downloaded"), Len(downloaded_files))
            /\ IsInt(Member(metrics, "upload_attempts"), Len(upload_results))
            /\ IsInt(Member(metrics, "successful_uploads"), successful_uploads(upload_results))
            /\ IsStr(Member(metrics, "download_success"), computed.metrics.download_success)
            /\ artifacts.t = "obj"
            /\ HasMember(artifacts, "uploaded_statements") <=>
                    computed.uploaded_statements # <<>>
            /\ HasMember(artifacts, "uploaded_statements") =>
                    IsStrList(Member(artifacts, "uploaded_statements"),
                              computed.uploaded_statements)
            /\ HasMember(artifacts, "downloaded_statements") <=> downloaded_files # <<>>
            /\ HasMember(artifacts, "downloaded_statements") =>
                    IsStrList(Member(artifacts, "downloaded_statements"),
                              computed.downloaded_statements)

\* C19 witness: a report with status `warning`, two downloaded statements and
\* one uploaded one has just been written to a path inside the workspace.
C19_Witness ==
    /\ pc = "cleanup"
    /\ original_result_file = InPath
    /\ PathExists(InPath)
    /\ final_doc.written
    /\ final_doc.status = "warning"
    /\ Len(final_doc.downloaded_statements) = 2
    /\ Len(final_doc.uploaded_statements) = 1
    /\ Len(report_text) > 20

\* The position of a file in the downloaded-files list.
IndexOf(p) == CHOOSE i \in 1..Len(downloaded_files) : downloaded_files[i] = p

\* C20: within a run no uploader is started before the downloader has ended,
\* and the downloaded-files list does not change once it has; an uploader is
\* started only after the one before it has ended and been recorded, on a
\* file of the list, at most once per file and in the order of the list.
C20_SequentialOrder ==
    /\ [](/\ \A u \in Positions("invoke_uploader") :
                /\ dl_exit = "zero"
                /\ \A d \in Positions("invoke_downloader") : d < u
          /\ pc \in {"check", "download", "downloader"} => Positions("invoke_uploader") = {}
          /\ Cardinality(Positions("invoke_downloader")) <= 1
          /\ Len(UploaderPaths) =
                Len(upload_results) + (IF pc = "uploader" \/ raised = "upload" THEN 1 ELSE 0)
          /\ \A j \in 1..Len(UploaderPaths) :
                /\ \E i \in 1..Len(downloaded_files) : downloaded_files[i] = UploaderPaths[j]
                /\ \A k \in 1..(j - 1) : IndexOf(UploaderPaths[k]) < IndexOf(UploaderPaths[j])
          /\ pc = "uploader" => UploaderPaths[Len(UploaderPaths)] = downloaded_files[idx])
    /\ [][pc # "downloader" => downloaded_files' = downloaded_files]_vars

\* C20 witness: three files were downloaded and the uploader was run on each
\* of them, in list order, before run() returned.
C20_Witness ==
    /\ Returned
    /\ Len(downloaded_files) = 3
    /\ UploaderPaths = downloaded_files
    /\ Len(upload_results) = 3

\* C21: when the upload stage has gone through a non-empty downloaded-files
\* list and returned, there is exactly one upload record per downloaded file,
\* in list order, also for a file whose upload failed or timed out or which
\* was missing at its turn.
C21_OneRecordPerFile ==
    (UploadStageReturned /\ downloaded_files # <<>>) =>
        /\ Len(upload_results) = Len(downloaded_files)
        /\ \A i \in 1..Len(upload_results) :
              /\ i <= Len(downloaded_files)
              /\ upload_results[i].filepath = downloaded_files[i]

\* The download stage has returned (exit 0, non-zero exit or timeout).
DownloadStageReturned == dl_exit \in {"zero", "nonzero", "timeout"}
\* The report file existed when the downloader ended.
ReportExisted == ~Falsy(temp_result_file) /\ TempName \in dl_names

\* C22: however the downloader ended, the download stage has read the report
\* (a result tagged `download`) and, when the report file existed, made a
\* backup copy of it before any uploader is started; no step outside the
\* download stage changes the recorded download result, and no uploader
\* invocation changes the backup.
C22_DownloadReportArchived ==
    /\ [](DownloadStageReturned =>
            /\ download_result.set
            /\ download_result.source = "download"
            /\ download_result.backup_file =
                  (IF ReportExisted THEN join(TempDir, DownloadBackupName) ELSE NonePath)
            /\ ~ReportExisted => ~download_result.success
            /\ (ReportExisted /\ (pc = "upload" \/ (pc = "finally" /\ DownloadFailed))) =>
                  /\ DownloadBackupName \in DOMAIN ws
                  /\ ws[DownloadBackupName] = ws[TempName])
    /\ [][pc # "downloader" => download_result' = download_result]_vars
    /\ [][(pc \in {"upload_loop", "uploader"} /\ pc' # pc
           /\ DownloadBackupName \in DOMAIN ws) =>
            /\ DownloadBackupName \in DOMAIN ws'
            /\ ws'[DownloadBackupName] = ws[DownloadBackupName]]_vars

\* C22 witness: the downloader's report (not JSON) is kept in the backup
\* after an uploader has written its own report over the temporary file.
C22_Witness ==
    /\ pc = "finally"
    /\ dl_exit = "zero"
    /\ dl_wrote = Garbage
    /\ Len(upload_results) = 1
    /\ TempName \in DOMAIN ws
    /\ ws[TempName] = JsonUrl
    /\ DownloadBackupName \in DOMAIN ws
    /\ ws[DownloadBackupName] = Garbage
    /\ download_result.data.raw = Garbage

\* The number of uploads that exited 0 among the first i upload records.
ExitedZeroUpTo(i) == Cardinality({k \in 1..i : upload_results[k].upload_success})

\* C23: in the final report artifacts.uploaded_statements has one entry per
\* upload that exited 0, in upload order, so as many as
\* metrics.successful_uploads: the URL of that upload's report when it had
\* one, the file's basename otherwise; artifacts.downloaded_statements has
\* the basename of every discovered file, uploaded or not.
C23_Artifacts ==
    final_doc.written =>
        /\ Len(final_doc.uploaded_statements) = ExitedZeroUpTo(Len(upload_results))
        /\ Len(final_doc.uploaded_statements) = final_doc.metrics.successful_uploads
        /\ \A i \in 1..Len(upload_results) :
              upload_results[i].upload_success =>
                 final_doc.uploaded_statements[ExitedZeroUpTo(i)] =
                    (IF upload_results[i].data.url # "" THEN upload_results[i].data.url
                     ELSE upload_results[i].filepath.name)
        /\ Len(final_doc.downloaded_statements) = Len(downloaded_files)
        /\ \A i \in 1..Len(downloaded_files) :
              final_doc.downloaded_statements[i] = downloaded_files[i].name

\* C23 witness: of three discovered files one was uploaded with a URL in its
\* report, one was uploaded without a report and one upload failed.
C23_Witness ==
    /\ final_doc.written
    /\ Len(final_doc.downloaded_statements) = 3
    /\ Len(upload_results) = 3
    /\ Len(final_doc.uploaded_statements) = 2
    /\ \E i, j \in 1..2 :
          /\ final_doc.uploaded_statements[i] = "https://sp/doc"
          /\ final_doc.uploaded_statements[j] \in {StmtNames[k] : k \in 1..Len(StmtNames)}

\* C24: whenever run() returns a non-zero exit code and a report path is
\* configured, the final report's status is not `success`.
C24_FailureNeverSuccess ==
    (Returned /\ Configured /\ rc # 0) => final_doc.status # "success"

\* C26: when run() has returned, with any exit code, the process's
\* RESULT_FILE is what it was when the uploader was constructed: the same
\* value if it was set, unset if it was unset.
C26_EnvRestored ==
    Returned => env_result_file = original_result_file

C27_OnlyStatementsUploaded ==
    \A j \in 1..Len(UploaderPaths) :
        /\ UploaderPaths[j].name \in {StmtNames[k] : k \in 1..Len(StmtNames)}
        /\ UploaderPaths[j].name # TempName
        /\ UploaderPaths[j].name # DownloadBackupName

\* C28: when run() has returned with a report path configured and cleanup
\* enabled, the final report exists at the configured path, wherever that
\* path points.
C28_ReportSurvivesCleanup ==
    (Returned /\ Configured /\ cleanup_arg) =>
        (final_doc.written /\ PathExists(original_result_file))

====
